---- MODULE Spec2Model ----
(***************************************************************************)
(* Path search of the travel planner: get_edge_weight, build_adjacency and *)
(* neighbor_generator of data_loader.py, dijkstra and astar of             *)
(* algorithms.py.  One action per branch of one iteration of the           *)
(* `while pq:` loop of each search.                                        *)
(***************************************************************************)
EXTENDS Integers, Sequences, FiniteSets, TLC

\* ------------------------------------------------------------------ bounds
NumNodes == 3
MaxEdges == 3
MaxW == 1
MaxH == 1
ExpSpan == 2

\* float("inf"), the cost of the unreachable result and the default of a
\* missing magnitude; larger than every finite cost within the bounds.
INF == 1000000

Nodes == 1..NumNodes
Weights == 0..MaxW

VARIABLES
    adj,        \* the adjacency view handed to the search (argument adj)
    start,      \* argument start
    end,        \* argument end
    factor,     \* argument factor
    hfn,        \* hfn[n] = heuristic_fn(n, end) of the running call
    fn,         \* the function that is running: "dijkstra" or "astar"
    pc,         \* "loop" inside `while pq:`, "done" after return, "error" after a raise
    pq,         \* the frontier list, in push order
    visited,    \* the set visited
    cur,        \* the tuple last popped (locals cost, node, path / est, cost, node, path)
    step,       \* the branch the last iteration took
    ret,        \* the value returned: <<cost, path>>
    pushes,     \* number of heappush calls of the running call
    finalized,  \* the <<node, cost>> pairs in the order of visited.add
    calls,      \* the calls still to make after the running one
    prev,       \* the value returned by the previous call
    edge,       \* the edge records handed to get_edge_weight on their own
    weight      \* the values get_edge_weight returned for them

vars == <<adj, start, end, factor, hfn, fn, pc, pq, visited, cur, step, ret,
          pushes, finalized, calls, prev, edge, weight>>

\* --------------------------------------------------------------- helpers
Min(S) == CHOOSE x \in S : \A y \in S : x <= y

SeqsUpTo(S, n) == UNION {[1..k -> S] : k \in 0..n}

\* ------------------------------------------------ data_loader.py records
\* Python floats are binary64.  The magnitudes are small integers, which
\* binary64 holds exactly.  A safety_score is taken from the binary64 values
\*   Zero = 0.0,   Pow(k) = 2^-k  (Pow(0) = 1.0),
\* and a safety weight is one of those or OneMinusPow(k) = 1 - 2^-k, which is
\* a binary64 value exactly when it needs at most Prec significant bits.
Prec == 53

Zero == [m |-> "zero", k |-> 0]
Pow(k) == [m |-> "pow", k |-> k]
OneMinusPow(k) == [m |-> "one_minus_pow", k |-> k]

\* 1.0 - x in binary64 (round to nearest, ties to even) for a score x:
\* 1 - 2^-k is exact for k <= Prec, and rounds to 1.0 beyond.
FloatOneMinus(x) ==
    IF x.m = "zero" THEN Pow(0)
    ELSE IF x.k = 0 THEN Zero
    ELSE IF x.k = 1 THEN Pow(1)
    ELSE IF x.k <= Prec THEN OneMinusPow(x.k)
    ELSE Pow(0)

\* x < y on these values: 0 < 2^-k (k >= 1, growing as k falls) <= 1/2
\* < 1 - 2^-k (k >= 2, growing with k) < 1.
FloatRank(x) ==
    IF x.m = "zero" THEN <<0, 0>>
    ELSE IF x.m = "one_minus_pow" THEN <<2, x.k>>
    ELSE IF x.k = 0 THEN <<3, 0>>
    ELSE <<1, 0 - x.k>>

FloatLess(x, y) ==
    \/ FloatRank(x)[1] < FloatRank(y)[1]
    \/ FloatRank(x)[1] = FloatRank(y)[1] /\ FloatRank(x)[2] < FloatRank(y)[2]

\* An edge dict as load_edges builds it (the fields the core reads).
EdgeRec(s, t, d, tm, c, em, sc) ==
    [source |-> s, target |-> t, distance_km |-> d, time_min |-> tm,
     cost_usd |-> c, emission_kgco2 |-> em, safety_score |-> sc]

\* edge.get(key, default)
EdgeGet(e, key, default) == IF key \in DOMAIN e THEN e[key] ELSE default

\* mutant: the safety score itself is the weight
get_edge_weight_no_inversion(e, f) ==
    IF f = "distance" THEN EdgeGet(e, "distance_km", INF)
    ELSE IF f = "time" THEN EdgeGet(e, "time_min", INF)
    ELSE IF f = "cost" THEN EdgeGet(e, "cost_usd", INF)
    ELSE IF f = "eco" THEN EdgeGet(e, "emission_kgco2", INF)
    ELSE IF f = "safety" THEN EdgeGet(e, "safety_score", Pow(1))
    ELSE EdgeGet(e, "distance_km", INF)

get_edge_weight(e, f) ==
    IF f = "distance" THEN EdgeGet(e, "distance_km", INF)
    ELSE IF f = "time" THEN EdgeGet(e, "time_min", INF)
    ELSE IF f = "cost" THEN EdgeGet(e, "cost_usd", INF)
    ELSE IF f = "eco" THEN EdgeGet(e, "emission_kgco2", INF)
    ELSE IF f = "safety" THEN FloatOneMinus(EdgeGet(e, "safety_score", Pow(1)))
    ELSE EdgeGet(e, "distance_km", INF)

\* mutant: adj[node] in place of adj.get(node, []); for a node that is no key
\* the loop over it cannot run (KeyError), which a list holding one entry that
\* cannot be unpacked stands for
AdjGetKeyError(a, n) == IF n \in DOMAIN a THEN a[n] ELSE << <<>> >>

\* adj.get(node, [])
AdjGet(a, n) == IF n \in DOMAIN a THEN a[n] ELSE <<>>

\* adj[k].append(x) on a defaultdict(list)
AdjAppend(a, k, x) ==
    IF k \in DOMAIN a THEN [a EXCEPT ![k] = Append(@, x)] ELSE a @@ (k :> <<x>>)

Mirror(e) == [e EXCEPT !.source = e.target, !.target = e.source]

RECURSIVE build_loop(_, _, _)
build_loop(es, directed, a) ==
    IF es = <<>> THEN a
    ELSE LET e == Head(es)
             a1 == AdjAppend(a, e.source, <<e.target, e>>)
             a2 == IF directed THEN a1
                   ELSE AdjAppend(a1, e.target, <<e.source, Mirror(e)>>)
         IN build_loop(Tail(es), directed, a2)

build_adjacency(es, directed) == build_loop(es, directed, <<>>)

\* list(neighbor_generator(adj, node, factor))
neighbor_generator(a, n, f) ==
    [i \in 1..Len(AdjGet(a, n)) |->
        <<AdjGet(a, n)[i][1], get_edge_weight(AdjGet(a, n)[i][2], f), AdjGet(a, n)[i][2]>>]

\* The adjacency view in the shape dijkstra and astar iterate:
\* {n: list(neighbor_generator(adj, n, factor)) for n in adj}
WeightedView(a, f) == [n \in DOMAIN a |-> neighbor_generator(a, n, f)]

\* ------------------------------------------------- Python tuple ordering
\* list < list: lexicographic, a proper prefix is smaller.
RECURSIVE ListLess(_, _)
ListLess(p, q) ==
    IF q = <<>> THEN FALSE
    ELSE IF p = <<>> THEN TRUE
    ELSE IF Head(p) # Head(q) THEN Head(p) < Head(q)
    ELSE ListLess(Tail(p), Tail(q))

\* mutant: the node is compared before the cost
DijkstraLessNodeFirst(a, b) ==
    \/ a[2] < b[2]
    \/ a[2] = b[2] /\ a[1] < b[1]
    \/ a[2] = b[2] /\ a[1] = b[1] /\ ListLess(a[3], b[3])

\* (cost, node, path) < (cost, node, path)
DijkstraLess(a, b) ==
    \/ a[1] < b[1]
    \/ a[1] = b[1] /\ a[2] < b[2]
    \/ a[1] = b[1] /\ a[2] = b[2] /\ ListLess(a[3], b[3])

\* (est, cost, node, path) < (est, cost, node, path)
AstarLess(a, b) ==
    \/ a[1] < b[1]
    \/ a[1] = b[1] /\ a[2] < b[2]
    \/ a[1] = b[1] /\ a[2] = b[2] /\ a[3] < b[3]
    \/ a[1] = b[1] /\ a[2] = b[2] /\ a[3] = b[3] /\ ListLess(a[4], b[4])

\* mutant: only the priority is compared, as with a key function
TupleLessPriorityOnly(a, b) == a[1] < b[1]

TupleLess(a, b) == IF Len(a) = 3 THEN DijkstraLess(a, b) ELSE AstarLess(a, b)

\* mutant: pq.pop(0), a queue instead of a heap
PopIndexFifo(q) == 1

\* heapq.heappop(pq): the position of the smallest item of the list.
PopIndex(q) ==
    CHOOSE i \in 1..Len(q) :
        /\ \A j \in 1..Len(q) : ~TupleLess(q[j], q[i])
        /\ \A j \in 1..(i - 1) : TupleLess(q[i], q[j])

RemoveAt(q, i) == SubSeq(q, 1, i - 1) \o SubSeq(q, i + 1, Len(q))

\* `for neigh, w, edge in ...`: the entries unpacked before the first one that
\* is not a 3-tuple (unpacking that one raises ValueError).
Unpacked(lst) ==
    IF \A i \in 1..Len(lst) : Len(lst[i]) = 3 THEN Len(lst)
    ELSE Min({i \in 1..Len(lst) : Len(lst[i]) # 3}) - 1

\* ---------------------------------------------------------------- dijkstra
\* pq = [(0, start, [])]
DijkstraSeed(s) == << <<0, s, <<>> >> >>

\* the tuples pushed by the for loop of line 22-23
DijkstraPushed(a, f, cost, node, path) ==
    [i \in 1..Unpacked(AdjGet(a, node)) |->
        <<cost + get_edge_weight(AdjGet(a, node)[i][3], f), AdjGet(a, node)[i][1], path>>]

dijkstra_exhausted ==
    /\ fn = "dijkstra" /\ pc = "loop" /\ pq = <<>>
    /\ ret' = <<INF, <<>> >>
    /\ pc' = "done"
    /\ step' = "exhausted"
    /\ UNCHANGED <<edge, weight>>
    /\ UNCHANGED <<adj, start, end, factor, hfn, fn, pq, visited, cur, pushes,
                   finalized, calls, prev>>

dijkstra_skip ==
    /\ fn = "dijkstra" /\ pc = "loop" /\ pq # <<>>
    /\ LET e == pq[PopIndex(pq)] IN
        /\ e[2] \in visited
        /\ pq' = RemoveAt(pq, PopIndex(pq))
        /\ cur' = e
        /\ step' = "skip"
    /\ UNCHANGED <<edge, weight>>
    /\ UNCHANGED <<adj, start, end, factor, hfn, fn, pc, visited, ret, pushes,
                   finalized, calls, prev>>

dijkstra_return ==
    /\ fn = "dijkstra" /\ pc = "loop" /\ pq # <<>>
    /\ LET e == pq[PopIndex(pq)] IN
        /\ e[2] \notin visited
        /\ e[2] = end
        /\ pq' = RemoveAt(pq, PopIndex(pq))
        /\ cur' = <<e[1], e[2], Append(e[3], e[2])>>
        /\ ret' = <<e[1], Append(e[3], e[2])>>
        /\ pc' = "done"
        /\ step' = "return"
    /\ UNCHANGED <<edge, weight>>
    /\ UNCHANGED <<adj, start, end, factor, hfn, fn, visited, pushes, finalized,
                   calls, prev>>

dijkstra_expand ==
    /\ fn = "dijkstra" /\ pc = "loop" /\ pq # <<>>
    /\ LET e == pq[PopIndex(pq)]
           path == Append(e[3], e[2])
           new == DijkstraPushed(adj, factor, e[1], e[2], path)
       IN
        /\ e[2] \notin visited
        /\ e[2] # end
        /\ visited' = visited \cup {e[2]}
        /\ finalized' = Append(finalized, <<e[2], e[1]>>)
        /\ pq' = RemoveAt(pq, PopIndex(pq)) \o new
        /\ pushes' = pushes + Len(new)
        /\ cur' = <<e[1], e[2], path>>
        /\ pc' = IF Len(new) = Len(AdjGet(adj, e[2])) THEN "loop" ELSE "error"
        /\ step' = "expand"
    /\ UNCHANGED <<edge, weight>>
    /\ UNCHANGED <<adj, start, end, factor, hfn, fn, ret, calls, prev>>

\* ------------------------------------------------------------------- astar
\* mutant: the estimate is seeded as the accumulated cost too
AstarSeedEstimateAsCost(s, h) == << <<0 + h[s], h[s], s, <<>> >> >>

\* pq = [(0 + heuristic_fn(start, end), 0, start, [])]
AstarSeed(s, h) == << <<0 + h[s], 0, s, <<>> >> >>

\* mutant: the tuple carries cost, not g
AstarPushedOldCost(a, f, h, cost, node, path) ==
    [i \in 1..Unpacked(AdjGet(a, node)) |->
        LET g == cost + get_edge_weight(AdjGet(a, node)[i][3], f)
            neigh == AdjGet(a, node)[i][1]
        IN <<g + h[neigh], cost, neigh, path>>]

\* the tuples pushed by the for loop of line 41-44
AstarPushed(a, f, h, cost, node, path) ==
    [i \in 1..Unpacked(AdjGet(a, node)) |->
        LET g == cost + get_edge_weight(AdjGet(a, node)[i][3], f)
            neigh == AdjGet(a, node)[i][1]
        IN <<g + h[neigh], g, neigh, path>>]

astar_exhausted ==
    /\ fn = "astar" /\ pc = "loop" /\ pq = <<>>
    /\ ret' = <<INF, <<>> >>
    /\ pc' = "done"
    /\ step' = "exhausted"
    /\ UNCHANGED <<edge, weight>>
    /\ UNCHANGED <<adj, start, end, factor, hfn, fn, pq, visited, cur, pushes,
                   finalized, calls, prev>>

astar_skip ==
    /\ fn = "astar" /\ pc = "loop" /\ pq # <<>>
    /\ LET e == pq[PopIndex(pq)] IN
        /\ e[3] \in visited
        /\ pq' = RemoveAt(pq, PopIndex(pq))
        /\ cur' = e
        /\ step' = "skip"
    /\ UNCHANGED <<edge, weight>>
    /\ UNCHANGED <<adj, start, end, factor, hfn, fn, pc, visited, ret, pushes,
                   finalized, calls, prev>>

\* mutant: the path is returned without the goal appended to it
astar_return_without_goal ==
    /\ fn = "astar" /\ pc = "loop" /\ pq # <<>>
    /\ LET e == pq[PopIndex(pq)] IN
        /\ e[3] \notin visited
        /\ e[3] = end
        /\ pq' = RemoveAt(pq, PopIndex(pq))
        /\ cur' = e
        /\ ret' = <<e[2], e[4]>>
        /\ pc' = "done"
        /\ step' = "return"
    /\ UNCHANGED <<edge, weight>>
    /\ UNCHANGED <<adj, start, end, factor, hfn, fn, visited, pushes, finalized,
                   calls, prev>>

astar_return ==
    /\ fn = "astar" /\ pc = "loop" /\ pq # <<>>
    /\ LET e == pq[PopIndex(pq)] IN
        /\ e[3] \notin visited
        /\ e[3] = end
        /\ pq' = RemoveAt(pq, PopIndex(pq))
        /\ cur' = <<e[1], e[2], e[3], Append(e[4], e[3])>>
        /\ ret' = <<e[2], Append(e[4], e[3])>>
        /\ pc' = "done"
        /\ step' = "return"
    /\ UNCHANGED <<edge, weight>>
    /\ UNCHANGED <<adj, start, end, factor, hfn, fn, visited, pushes, finalized,
                   calls, prev>>

astar_expand ==
    /\ fn = "astar" /\ pc = "loop" /\ pq # <<>>
    /\ LET e == pq[PopIndex(pq)]
           path == Append(e[4], e[3])
           new == AstarPushed(adj, factor, hfn, e[2], e[3], path)
       IN
        /\ e[3] \notin visited
        /\ e[3] # end
        /\ visited' = visited \cup {e[3]}
        /\ finalized' = Append(finalized, <<e[3], e[2]>>)
        /\ pq' = RemoveAt(pq, PopIndex(pq)) \o new
        /\ pushes' = pushes + Len(new)
        /\ cur' = <<e[1], e[2], e[3], path>>
        /\ pc' = IF Len(new) = Len(AdjGet(adj, e[3])) THEN "loop" ELSE "error"
        /\ step' = "expand"
    /\ UNCHANGED <<edge, weight>>
    /\ UNCHANGED <<adj, start, end, factor, hfn, fn, ret, calls, prev>>

\* ------------------------------------------------------------ call sequence
Seed(f, s, h) == IF f = "dijkstra" THEN DijkstraSeed(s) ELSE AstarSeed(s, h)

\* The caller keeps the value returned and makes its next call with the same
\* start, end and factor: the state after that call's lines 12-13 / 31-32.
next_call ==
    /\ pc = "done" /\ calls # <<>>
    /\ prev' = ret
    /\ fn' = Head(calls).fn
    /\ adj' = Head(calls).adj
    /\ hfn' = Head(calls).hfn
    /\ calls' = Tail(calls)
    /\ pq' = Seed(Head(calls).fn, start, Head(calls).hfn)
    /\ visited' = {}
    /\ cur' = <<>>
    /\ step' = "call"
    /\ ret' = <<>>
    /\ pushes' = 0
    /\ finalized' = <<>>
    /\ pc' = "loop"
    /\ UNCHANGED <<start, end, factor, edge, weight>>

\* The state after lines 12-13 / 31-32 of the first call.
Entered(f, a, s, t, fac, h, rest) ==
    /\ fn = f /\ adj = a /\ start = s /\ end = t /\ factor = fac /\ hfn = h
    /\ calls = rest
    /\ pq = Seed(f, s, h)
    /\ visited = {}
    /\ cur = <<>>
    /\ step = "call"
    /\ ret = <<>>
    /\ prev = <<>>
    /\ pushes = 0
    /\ finalized = <<>>
    /\ pc = "loop"
    /\ edge = <<>>
    /\ weight = <<>>

\* ------------------------------------------------ get_edge_weight on its own
\* get_edge_weight(edge, factor) for each of the edge records handed in
weigh ==
    /\ fn = "get_edge_weight" /\ pc = "call"
    /\ weight' = [i \in 1..Len(edge) |-> get_edge_weight(edge[i], factor)]
    /\ pc' = "done"
    /\ step' = "return"
    /\ UNCHANGED <<adj, start, end, factor, hfn, fn, pq, visited, cur, ret, pushes,
                   finalized, calls, prev, edge>>

\* ------------------------------------------------------------------ inputs
\* The edges of the searched graphs: the time falls as the distance grows, so
\* the two metrics rank routes differently.
EdgeKinds ==
    {EdgeRec(s, t, d, MaxW - d, d, MaxW - d, Pow(1)) :
        s \in Nodes, t \in Nodes, d \in Weights}

EdgeLists == SeqsUpTo(EdgeKinds, MaxEdges)

ZeroH == [n \in Nodes |-> 0]

Heuristics == [Nodes -> 0..MaxH]

\* The weighted views of the bounded directed graphs under a metric.
Views(fac) == {WeightedView(build_adjacency(es, TRUE), fac) : es \in EdgeLists}

\* dijkstra(adj, start, end, factor) on every bounded view
InitDijkstra ==
    \E fac \in {"distance", "time"} :
        \E a \in Views(fac), s \in Nodes, t \in Nodes :
            Entered("dijkstra", a, s, t, fac, ZeroH, <<>>)

NextDijkstra ==
    \/ dijkstra_exhausted
    \/ dijkstra_skip
    \/ dijkstra_return
    \/ dijkstra_expand

SpecDijkstra == InitDijkstra /\ [][NextDijkstra]_vars

\* astar from the first node to the last on graphs one node, one edge, one
\* unit of weight and of heuristic larger, without parallel or backward edges,
\* with every admissible heuristic
AdmNodes == 1..(NumNodes + 1)

AdmEdgeKinds ==
    {EdgeRec(s, t, d, d, d, d, Pow(1)) :
        s \in AdmNodes, t \in AdmNodes, d \in 0..(MaxW + 1)}

ArcBefore(e1, e2) ==
    \/ e1.source < e2.source
    \/ e1.source = e2.source /\ e1.target < e2.target

AdmEdgeLists ==
    {es \in SeqsUpTo({e \in AdmEdgeKinds : e.source < e.target}, MaxEdges + 1) :
        \A i \in 1..(Len(es) - 1) : ArcBefore(es[i], es[i + 1])}

AdmViews == {WeightedView(build_adjacency(es, TRUE), "distance") : es \in AdmEdgeLists}

\* The arcs <<origin, destination, weight>> of a view under a metric.
ArcsOf(a, f) == UNION {{<<u, a[u][i][1], get_edge_weight(a[u][i][3], f)>> :
                            i \in 1..Len(a[u])} : u \in DOMAIN a}

\* One round of relaxing every arc.
Relax(a, f, d) ==
    [n \in DOMAIN d |->
        Min({d[n]} \cup {d[x[1]] + x[3] : x \in {y \in ArcsOf(a, f) : y[2] = n /\ d[y[1]] < INF}})]

RECURSIVE RelaxN(_, _, _, _)
RelaxN(a, f, d, k) == IF k = 0 THEN d ELSE RelaxN(a, f, Relax(a, f, d), k - 1)

\* TrueDistOn(N, a, f, s)[n]: the minimum summed weight over all paths from s
\* to n in the graph on the nodes N, INF when there is none (a cheapest path
\* has fewer arcs than there are nodes, the weights being >= 0).
TrueDistOn(N, a, f, s) ==
    RelaxN(a, f, [n \in N |-> IF n = s THEN 0 ELSE INF], Cardinality(N) - 1)

\* The nodes of the running call's graph are those its heuristic is given on.
TrueDist(a, f, s) == TrueDistOn(DOMAIN hfn, a, f, s)

Reachable(a, f, s, t) == TrueDist(a, f, s)[t] < INF

\* The sums of weights over the choices of one edge per consecutive pair of p
\* (empty when some pair is joined by no edge).
RECURSIVE PathSums(_, _, _)
PathSums(a, f, p) ==
    IF Len(p) <= 1 THEN {0}
    ELSE {x + y[3] : x \in PathSums(a, f, SubSeq(p, 1, Len(p) - 1)),
                     y \in {z \in ArcsOf(a, f) : z[1] = p[Len(p) - 1] /\ z[2] = p[Len(p)]}}

\* p is a node sequence from s to t along edges of the view.
IsPath(a, f, p, s, t) ==
    /\ Len(p) >= 1
    /\ p[1] = s
    /\ p[Len(p)] = t
    /\ PathSums(a, f, p) # {}

\* ------------------------------------------------------------------ claims
\* C1: when the goal is reachable, dijkstra returns (c, p) with p a node
\* sequence from start to goal along edges of adj and c the minimum over all
\* start-to-goal paths of the summed get_edge_weight values.
C1_DijkstraOptimal ==
    (fn = "dijkstra" /\ pc = "done" /\ Reachable(adj, factor, start, end)) =>
        /\ ret[1] = TrueDist(adj, factor, start)[end]
        /\ IsPath(adj, factor, ret[2], start, end)

\* a run that returned a two-hop route cheaper than a direct edge to the goal
C1_Witness ==
    /\ fn = "dijkstra" /\ pc = "done" /\ step = "return"
    /\ \E x \in ArcsOf(adj, factor) : x[1] = start /\ x[2] = end /\ x[3] > ret[1]
    /\ Len(ret[2]) = 3
    /\ ret[1] = TrueDist(adj, factor, start)[end]

\* dijkstra(adj, start, end, "cost") on every bounded view, and
\* astar(adj, start, end, nodes, "cost", heuristic_fn) on every bounded view
\* with every bounded heuristic, admissible or not
InitSearch ==
    \E a \in Views("cost"), s \in Nodes, t \in Nodes :
        \/ Entered("dijkstra", a, s, t, "cost", ZeroH, <<>>)
        \/ \E h \in Heuristics : Entered("astar", a, s, t, "cost", h, <<>>)

NextAstar ==
    \/ astar_exhausted
    \/ astar_skip
    \/ astar_return
    \/ astar_expand

NextSearch == NextDijkstra \/ NextAstar

\* Nothing suspends a call: the loop of a search runs on.
SpecSearch == InitSearch /\ [][NextSearch]_vars /\ WF_vars(NextSearch)

\* dijkstra, then astar with the heuristic that is 0 everywhere, on the same
\* arguments
InitPair ==
    \E a \in Views("eco"), s \in Nodes, t \in Nodes :
        Entered("dijkstra", a, s, t, "eco", ZeroH,
                <<[fn |-> "astar", adj |-> a, hfn |-> ZeroH]>>)

NextPair == NextDijkstra \/ NextAstar \/ next_call

SpecPair == InitPair /\ [][NextPair]_vars

\* The views obtained from a by permuting each node's neighbor list, a itself
\* left out.
IndexPermutations(n) ==
    {p \in [1..n -> 1..n] : \A i \in 1..n, j \in 1..n : i # j => p[i] # p[j]}

PermutedLists(l) == {[i \in 1..Len(l) |-> l[p[i]]] : p \in IndexPermutations(Len(l))}

PermutedViews(a) ==
    {b \in [DOMAIN a -> UNION {PermutedLists(a[n]) : n \in DOMAIN a}] :
        \A n \in DOMAIN a : b[n] \in PermutedLists(a[n])} \ {a}

\* one search on a view, then the same search on a permuted view; the metric
\* identifier is none of the five, so the weights are the distances
InitPerm ==
    \E a \in Views("price"), s \in Nodes, t \in Nodes :
        \E b \in PermutedViews(a) :
            \/ Entered("dijkstra", a, s, t, "price", ZeroH,
                       <<[fn |-> "dijkstra", adj |-> b, hfn |-> ZeroH]>>)
            \/ \E h \in Heuristics :
                  Entered("astar", a, s, t, "price", h,
                          <<[fn |-> "astar", adj |-> b, hfn |-> h]>>)

SpecPerm == InitPerm /\ [][NextPair]_vars

\* The searches called on what build_adjacency returns, as the module
\* docstring of algorithms.py says they are; astar with the default heuristic
\* and nodes without coordinates, which is 0.0 everywhere.
InitLoader ==
    \E es \in EdgeLists, directed \in BOOLEAN, s \in Nodes, t \in Nodes,
       f \in {"dijkstra", "astar"} :
        Entered(f, build_adjacency(es, directed), s, t, "distance", ZeroH, <<>>)

NextLoader ==
    \/ dijkstra_exhausted
    \/ dijkstra_return
    \/ dijkstra_expand
    \/ astar_exhausted
    \/ astar_return
    \/ astar_expand

SpecLoader == InitLoader /\ [][NextLoader]_vars

\* ------------------------------------------------------------- claim C10
FinalCost(n) ==
    LET i == CHOOSE j \in 1..Len(finalized) : finalized[j][1] = n IN finalized[i][2]

C10_Finalized ==
    fn = "dijkstra" =>
        /\ \A i \in 1..Len(finalized), j \in 1..Len(finalized) :
              i # j => finalized[i][1] # finalized[j][1]
        /\ \A i \in 1..Len(finalized) :
              finalized[i][2] = TrueDist(adj, factor, start)[finalized[i][1]]
        /\ visited = {finalized[i][1] : i \in 1..Len(finalized)}

C10_StaleStep ==
    (fn = "dijkstra" /\ pc = "loop" /\ pq # <<>> /\ pq[PopIndex(pq)][2] \in visited) =>
        /\ pq[PopIndex(pq)][1] >= FinalCost(pq[PopIndex(pq)][2])
        /\ pq' = RemoveAt(pq, PopIndex(pq))
        /\ UNCHANGED <<visited, finalized, pushes, pc>>

\* C10: in a dijkstra run each node is finalized at most once, at its true
\* minimum cost from start, and an entry extracted for a finalized node costs
\* no less than that node's finalized cost and is discarded without expansion.
C10_FinalizedOnceAtMinimum == []C10_Finalized /\ [][C10_StaleStep]_vars

\* a costlier entry for an already finalized node has just been discarded
C10_Witness ==
    /\ fn = "dijkstra" /\ step = "skip"
    /\ Len(finalized) >= 2
    /\ cur[1] > FinalCost(cur[2])

\* -------------------------------------------------------------- claim C7
\* C7: with any non-negative heuristic astar terminates, and when the goal is
\* reachable it returns a node sequence from start to goal along edges of adj
\* with a finite cost equal to the summed weights of edges along it.
C7_Result ==
    (fn = "astar" /\ pc = "done" /\ Reachable(adj, factor, start, end)) =>
        /\ IsPath(adj, factor, ret[2], start, end)
        /\ ret[1] < INF
        /\ ret[1] \in PathSums(adj, factor, ret[2])

C7_AstarTerminatesWithPath ==
    <>(fn = "astar" => pc = "done") /\ []C7_Result

\* a run under an overestimating heuristic that returned a costlier path
C7_Witness ==
    /\ fn = "astar" /\ pc = "done" /\ step = "return"
    /\ \E n \in Nodes : hfn[n] > TrueDist(adj, factor, n)[end]
    /\ ret[1] > TrueDist(adj, factor, start)[end]

\* -------------------------------------------------------------- claim C2
\* h never overestimates the true minimum remaining cost to the goal.
Admissible(a, f, h, t) == \A n \in DOMAIN h : h[n] <= TrueDist(a, f, n)[t]

\* C2: with an admissible heuristic (no consistency required) astar returns
\* the true minimum cost whenever the goal is reachable.
C2_AdmissibleOptimal ==
    (fn = "astar" /\ pc = "done" /\ Admissible(adj, factor, hfn, end)
        /\ Reachable(adj, factor, start, end)) =>
        ret[1] = TrueDist(adj, factor, start)[end]

\* (d is bound by \E over a one-element set so that it is computed once)
InitAdmissible ==
    \E a \in AdmViews, t \in {NumNodes + 1} :
        \E d \in {[n \in AdmNodes |-> TrueDistOn(AdmNodes, a, "distance", n)[t]] @@ <<>>} :
            \E h \in {x \in [AdmNodes -> 0..(MaxH + 1)] : \A n \in AdmNodes : x[n] <= d[n]} :
                Entered("astar", a, 1, t, "distance", h, <<>>)

SpecAdmissible == InitAdmissible /\ [][NextAstar]_vars

\* The safety scores tried: 0.0 and 2^-k for k near 0 and k near Prec.
Scores ==
    {Zero} \cup {Pow(k) : k \in (0..ExpSpan) \cup ((Prec - ExpSpan)..(Prec + ExpSpan))}

Metrics == {"distance", "time", "cost", "eco", "safety", "price"}

\* get_edge_weight on two edge records carrying all five fields; the second
\* differs from the first in its distance and its safety score.
InitWeight ==
    \E d \in Weights, tm \in Weights, c \in Weights, em \in Weights, sc \in Scores,
       d2 \in Weights, sc2 \in Scores, f \in Metrics :
        /\ edge = <<EdgeRec(1, 2, d, tm, c, em, sc), EdgeRec(1, 2, d2, tm, c, em, sc2)>>
        /\ weight = <<>>
        /\ factor = f
        /\ fn = "get_edge_weight"
        /\ pc = "call"
        /\ adj = <<>> /\ start = 1 /\ end = 2 /\ hfn = ZeroH /\ calls = <<>>
        /\ pq = <<>> /\ visited = {} /\ cur = <<>> /\ step = "call" /\ ret = <<>>
        /\ prev = <<>> /\ pushes = 0 /\ finalized = <<>>

NextWeight == weigh

SpecWeight == InitWeight /\ [][NextWeight]_vars

\* astar alone under every heuristic with values in 0..MaxH and every heuristic
\* whose values are 0 or MaxH + 1, an estimate above every edge weight
Estimates == Heuristics \cup [Nodes -> {0, MaxH + 1}]

InitEstimate ==
    \E a \in Views("time"), s \in Nodes, t \in Nodes, h \in Estimates :
        Entered("astar", a, s, t, "time", h, <<>>)

\* Nothing suspends a call: the loop of a search runs on.
SpecEstimate == InitEstimate /\ [][NextAstar]_vars /\ WF_vars(NextAstar)

\* -------------------------------------------------------------- claim C3
\* C3: astar with the heuristic that is 0 for every pair of nodes returns the
\* cost dijkstra returns on the same adj, start, goal and metric, the
\* infinite cost of the unreachable case included.
C3_ZeroHeuristicSameCost ==
    (fn = "astar" /\ pc = "done" /\ hfn = ZeroH /\ prev # <<>>) => ret[1] = prev[1]

\* both searches done on a reachable goal two hops away at a cost above 0
C3_Witness ==
    /\ fn = "astar" /\ pc = "done" /\ hfn = ZeroH /\ prev # <<>>
    /\ ret[1] = prev[1]
    /\ ret[1] > 0 /\ ret[1] < INF
    /\ Len(ret[2]) = 3

\* -------------------------------------------------------------- claim C5
\* C5: for start = goal, a key of adj or not, dijkstra and astar return cost
\* 0 and the path [start], and nothing is ever pushed on the frontier.
C5_TrivialSearch ==
    (fn \in {"dijkstra", "astar"} /\ start = end) =>
        /\ pc # "error"
        /\ pushes = 0
        /\ visited = {}
        /\ pc = "done" => (ret = <<0, <<start>> >> /\ step = "return")

\* astar returned for a node that is no key of adj, under a heuristic that is
\* not 0 there
C5_Witness ==
    /\ fn = "astar" /\ pc = "done" /\ start = end
    /\ start \notin DOMAIN adj
    /\ hfn[start] > 0
    /\ ret = <<0, <<start>> >>

\* -------------------------------------------------------------- claim C6
C6_Result ==
    (fn \in {"dijkstra", "astar"} /\ ~Reachable(adj, factor, start, end)) =>
        /\ pc # "error"
        /\ pc = "done" => (ret = <<INF, <<>> >> /\ step = "exhausted" /\ pq = <<>>)

\* C6: when no path leads from start to goal (start or an intermediate node
\* may be no key of adj) dijkstra and astar terminate by exhausting the
\* frontier and return infinite cost with an empty path, never an error.
C6_UnreachableExhausts ==
    /\ <>(~Reachable(adj, factor, start, end) => pc = "done")
    /\ []C6_Result

\* the frontier ran empty after a node that is no key of adj was expanded
C6_Witness ==
    /\ fn = "astar" /\ pc = "done" /\ step = "exhausted"
    /\ ~Reachable(adj, factor, start, end)
    /\ start \in DOMAIN adj
    /\ \E n \in visited : n \notin DOMAIN adj
    /\ ret = <<INF, <<>> >>

\* -------------------------------------------------------------- claim C9
\* C9: a search on a view and the same search on a view with each neighbor
\* list permuted return the same cost and the same node sequence.
C9_OrderIndependent ==
    (fn \in {"dijkstra", "astar"} /\ pc = "done" /\ prev # <<>>) => ret = prev

\* both searches done where the direct edge and a route through a third node
\* tie on cost, so that both are on the frontier with equal priority
C9_Witness ==
    /\ fn = "astar" /\ pc = "done" /\ prev # <<>>
    /\ ret = prev
    /\ start # end
    /\ ret[1] \in PathSums(adj, factor, <<start, end>>)
    /\ \E m \in Nodes \ {start, end} :
          ret[1] \in PathSums(adj, factor, <<start, m, end>>)

\* -------------------------------------------------------------- claim C4
\* C4: dijkstra and astar called on the result of build_adjacency(edges)
\* complete with a path result and never end in an error.
C4_BuiltAdjacencyAccepted ==
    fn \in {"dijkstra", "astar"} =>
        /\ pc # "error"
        /\ pc = "done" => Len(ret) = 2

\* -------------------------------------------------------------- claim C8
Magnitude(e, f) ==
    IF f = "time" THEN e.time_min
    ELSE IF f = "cost" THEN e.cost_usd
    ELSE IF f = "eco" THEN e.emission_kgco2
    ELSE e.distance_km

C8_Selected ==
    (fn = "get_edge_weight" /\ pc = "done") =>
        \A i \in 1..Len(edge) :
            IF factor = "safety"
            THEN /\ weight[i] = FloatOneMinus(edge[i].safety_score)
                 /\ ~FloatLess(weight[i], Zero)
            ELSE /\ weight[i] = Magnitude(edge[i], factor)
                 /\ weight[i] >= 0

\* C8 as claimed: get_edge_weight returns the metric's field, 1 -
\* safety_score for safety and distance_km for an unknown identifier, never a
\* negative value, and a higher safety_score always gives a strictly lower
\* safety weight.
C8_StrictlyLowerWeight ==
    /\ C8_Selected
    /\ (fn = "get_edge_weight" /\ pc = "done" /\ factor = "safety") =>
          \A i \in 1..Len(edge), j \in 1..Len(edge) :
              FloatLess(edge[j].safety_score, edge[i].safety_score) =>
                  FloatLess(weight[i], weight[j])

\* C8 amended: as above, but a higher safety_score gives a safety weight that
\* is never higher (it is equal when 1.0 - safety_score rounds to the same
\* float).
C8_NeverHigherWeight ==
    /\ C8_Selected
    /\ (fn = "get_edge_weight" /\ pc = "done" /\ factor = "safety") =>
          \A i \in 1..Len(edge), j \in 1..Len(edge) :
              FloatLess(edge[j].safety_score, edge[i].safety_score) =>
                  ~FloatLess(weight[j], weight[i])

\* the safety weights of a safer and a less safe edge, the safer one lower
C8_Witness ==
    /\ fn = "get_edge_weight" /\ pc = "done" /\ factor = "safety"
    /\ FloatLess(edge[2].safety_score, edge[1].safety_score)
    /\ FloatLess(weight[1], weight[2])

====
